---- MODULE Spec2Model ----
(***************************************************************************)
(* Model of pkg/controller/proxyconfig/controller.go: the proxy-config     *)
(* reconciler of the cluster network operator.  Reconcile is dispatched on *)
(* the identity of the request (the proxy "cluster", or a ConfigMap in     *)
(* namespace "openshift-config"), resolves the trust bundle ConfigMap and  *)
(* syncs it with the object store through syncTrustedCABundle.             *)
(*                                                                         *)
(* Byte slices are sequences of PEM blocks; a block is a token, "X" is a   *)
(* block that is not a well-formed certificate.                            *)
(*                                                                         *)
(* Resource versions are kept relative to the store: "" is an object that  *)
(* was built locally and carries none, "current" is the version the store  *)
(* holds now, "stale" a version the store has since replaced.              *)
(***************************************************************************)
EXTENDS Integers, Sequences, FiniteSets, TLC

VARIABLES
    proxy,              \* the proxy object "cluster" in the store, or NotFound
    configMaps,         \* ConfigMap identity -> stored object or NotFound
    systemTrustBundle,  \* content of the file names.SYSTEM_TRUST_BUNDLE
    health,             \* last write to the status manager for ProxyConfig
    last,               \* what the last Reconcile invocation did and returned
    pc,                 \* concurrent workers: position of each invocation
    local,              \* concurrent workers: locals of each invocation
    queue,              \* work queue of requests waiting for a Reconcile
    budget              \* remaining input changes and store faults

vars == <<proxy, configMaps, systemTrustBundle, health, last, pc, local, queue, budget>>

---------------------------------------------------------------------------
(* Names (package names, quoted by the comments of controller.go).         *)

PROXY_CONFIG == "cluster"
ADDL_TRUST_BUNDLE_CONFIGMAP_NS == "openshift-config"
TRUSTED_CA_BUNDLE_CONFIGMAP == "trusted-ca-bundle"
TRUSTED_CA_BUNDLE_CONFIGMAP_NS == "openshift-config-managed"
TRUSTED_CA_BUNDLE_CONFIGMAP_KEY == "ca-bundle.crt"

NamespacedName(ns, n) == [Namespace |-> ns, Name |-> n]

Proxy == NamespacedName("", PROXY_CONFIG)
TrustedCABundleConfigMap ==
    NamespacedName(TRUSTED_CA_BUNDLE_CONFIGMAP_NS, TRUSTED_CA_BUNDLE_CONFIGMAP)

---------------------------------------------------------------------------
(* Bounds of the model.                                                    *)

\* How many of httpProxy, httpsProxy, noProxy, readinessEndpoints a proxy
\* spec of the model sets at once.
MaxFieldsSet == 1

\* Names of the ConfigMaps that users keep in "openshift-config", and the
\* names a proxy or a request may refer to ("other-ca" never exists).
CMNames == {"user-ca"}
RefNames == {"user-ca", "other-ca"}

\* Contents of a user ConfigMap under "ca-bundle.crt": empty, one
\* certificate, one malformed block.
CMData == {<<>>, <<"A">>, <<"X">>}

\* Contents of the system trust bundle file.
SystemData == {<<"S">>, <<"X">>}

Certificates == {"A", "S"}

HTTPProxyValues == {"", "http://proxy:3128", "not-a-url"}
HTTPSProxyValues == {"", "https://proxy:3129"}
NoProxyValues == {"", ".cluster.local"}
ReadinessValues == {<<>>, <<"not-a-url">>}
TrustedCANames == {""} \cup RefNames

CountSet(spec) ==
      (IF spec.HTTPProxy # "" THEN 1 ELSE 0)
    + (IF spec.HTTPSProxy # "" THEN 1 ELSE 0)
    + (IF spec.NoProxy # "" THEN 1 ELSE 0)
    + (IF Len(spec.ReadinessEndpoints) > 0 THEN 1 ELSE 0)

ProxySpecs ==
    { s \in [HTTPProxy : HTTPProxyValues,
             HTTPSProxy : HTTPSProxyValues,
             NoProxy : NoProxyValues,
             ReadinessEndpoints : ReadinessValues,
             TrustedCA : [Name : TrustedCANames]] :
        CountSet(s) <= MaxFieldsSet }

---------------------------------------------------------------------------
(* Objects of the store.                                                   *)

NotFound == [NotFound |-> TRUE]

\* map[string]string with the one key the code reads; a missing key reads
\* as the empty string.
NoData == [k \in {} |-> <<>>]
DataOf(bytes) == [k \in {TRUSTED_CA_BUNDLE_CONFIGMAP_KEY} |-> bytes]
DataGet(data, key) == IF key \in DOMAIN data THEN data[key] ELSE <<>>

ConfigMap(ns, n, data, rv) ==
    [Namespace |-> ns, Name |-> n, Data |-> data, ResourceVersion |-> rv]

\* &corev1.ConfigMap{}
EmptyConfigMap == ConfigMap("", "", NoData, "")

KeyOf(obj) == NamespacedName(obj.Namespace, obj.Name)

SourceKeys == {NamespacedName(ADDL_TRUST_BUNDLE_CONFIGMAP_NS, n) : n \in CMNames}
ConfigMapKeys == SourceKeys \cup {TrustedCABundleConfigMap}

---------------------------------------------------------------------------
(* The object store client: Get, Create, Update on ConfigMaps.             *)

Get(cms, key) == IF key \in DOMAIN cms THEN cms[key] ELSE NotFound

Put(cms, key, obj) ==
    [k \in DOMAIN cms \cup {key} |-> IF k = key THEN obj ELSE cms[k]]

Stored(obj) == [obj EXCEPT !.ResourceVersion = "current"]

WriteOf(op, obj) ==
    [Op |-> op, Key |-> KeyOf(obj),
     Data |-> DataGet(obj.Data, TRUSTED_CA_BUNDLE_CONFIGMAP_KEY)]

\* r.client.Create: fails when the object exists; on success the caller's
\* object is filled in with what the server stored.
Create(cms, obj, fails) ==
    IF fails \/ Get(cms, KeyOf(obj)) # NotFound
    THEN [err |-> TRUE, configMaps |-> cms, obj |-> obj, writes |-> <<>>]
    ELSE [err |-> FALSE, configMaps |-> Put(cms, KeyOf(obj), Stored(obj)),
          obj |-> Stored(obj), writes |-> <<WriteOf("Create", obj)>>]

\* Mutant: the stored object is removed.
Update_Delete(cms, obj, fails) ==
    IF fails \/ Get(cms, KeyOf(obj)) = NotFound \/ obj.ResourceVersion = "stale"
    THEN [err |-> TRUE, configMaps |-> cms, obj |-> obj, writes |-> <<>>]
    ELSE [err |-> FALSE, configMaps |-> Put(cms, KeyOf(obj), NotFound),
          obj |-> obj, writes |-> <<WriteOf("Update", obj)>>]

\* r.client.Update: fails when the object is gone, or when the caller's
\* object carries a resource version that is not the stored one; an object
\* that carries no resource version replaces the stored one unconditionally.
Update(cms, obj, fails) ==
    IF fails \/ Get(cms, KeyOf(obj)) = NotFound \/ obj.ResourceVersion = "stale"
    THEN [err |-> TRUE, configMaps |-> cms, obj |-> obj, writes |-> <<>>]
    ELSE [err |-> FALSE, configMaps |-> Put(cms, KeyOf(obj), Stored(obj)),
          obj |-> Stored(obj), writes |-> <<WriteOf("Update", obj)>>]

---------------------------------------------------------------------------
(* Validation helpers (validation.go).                                     *)

\* A byte slice is a valid bundle when it holds at least one block and every
\* block is a well-formed certificate.
CertificateData(bytes) ==
    Len(bytes) > 0 /\ \A i \in 1..Len(bytes) : bytes[i] \in Certificates

validateTrustBundle(cfgMap) ==
    LET bytes == DataGet(cfgMap.Data, TRUSTED_CA_BUNDLE_CONFIGMAP_KEY)
    IN  [err |-> ~CertificateData(bytes), data |-> bytes]

validateSystemTrustBundle ==
    [err |-> ~CertificateData(systemTrustBundle), data |-> systemTrustBundle]

\* Fetch the ConfigMap the name refers to in "openshift-config", take its
\* bundle as the additional data and load the system bundle.
validateTrustedCA(cms, trustedCA, fails) ==
    LET cfgMap == Get(cms, NamespacedName(ADDL_TRUST_BUNDLE_CONFIGMAP_NS, trustedCA))
    IN  IF fails \/ cfgMap = NotFound
        THEN [err |-> TRUE, proxyData |-> <<>>, systemData |-> <<>>]
        ELSE [err |-> FALSE,
              proxyData |-> DataGet(cfgMap.Data, TRUSTED_CA_BUNDLE_CONFIGMAP_KEY),
              systemData |-> systemTrustBundle]

WellFormedURL(u) == u \in {"http://proxy:3128", "https://proxy:3129"}

\* TRUE when the spec is rejected.
ValidateProxyConfig(spec) ==
    \/ spec.HTTPProxy # "" /\ ~WellFormedURL(spec.HTTPProxy)
    \/ spec.HTTPSProxy # "" /\ ~WellFormedURL(spec.HTTPSProxy)
    \/ \E i \in 1..Len(spec.ReadinessEndpoints) :
          ~WellFormedURL(spec.ReadinessEndpoints[i])

---------------------------------------------------------------------------
(* controller.go                                                           *)

isSpecHTTPProxySet(spec) == spec.HTTPProxy # ""
isSpecHTTPSProxySet(spec) == spec.HTTPSProxy # ""
isSpecNoProxySet(spec) == spec.NoProxy # ""
isSpecTrustedCASet(spec) == spec.TrustedCA.Name # ""

\* Mutant: the merged bundle is not validated.
mergeTrustBundlesToConfigMap_NoValidation(additionalData, systemData) ==
    IF Len(additionalData) = 0 \/ Len(systemData) = 0
    THEN [err |-> TRUE, cfgMap |-> EmptyConfigMap]
    ELSE [err |-> FALSE,
          cfgMap |-> ConfigMap(TRUSTED_CA_BUNDLE_CONFIGMAP_NS,
                               TRUSTED_CA_BUNDLE_CONFIGMAP,
                               DataOf(additionalData \o systemData), "")]

\* Mutant: the system bundle comes first.
mergeTrustBundlesToConfigMap_SystemFirst(additionalData, systemData) ==
    IF Len(additionalData) = 0 \/ Len(systemData) = 0
    THEN [err |-> TRUE, cfgMap |-> EmptyConfigMap]
    ELSE LET mergedCfgMap == ConfigMap(TRUSTED_CA_BUNDLE_CONFIGMAP_NS,
                                       TRUSTED_CA_BUNDLE_CONFIGMAP,
                                       DataOf(systemData \o additionalData), "")
         IN  IF validateTrustBundle(mergedCfgMap).err
             THEN [err |-> TRUE, cfgMap |-> EmptyConfigMap]
             ELSE [err |-> FALSE, cfgMap |-> mergedCfgMap]

\* Mutant: empty inputs are merged like any other.
mergeTrustBundlesToConfigMap_NoEmptyCheck(additionalData, systemData) ==
    LET mergedCfgMap == ConfigMap(TRUSTED_CA_BUNDLE_CONFIGMAP_NS,
                                  TRUSTED_CA_BUNDLE_CONFIGMAP,
                                  DataOf(additionalData \o systemData), "")
    IN  IF validateTrustBundle(mergedCfgMap).err
        THEN [err |-> TRUE, cfgMap |-> EmptyConfigMap]
        ELSE [err |-> FALSE, cfgMap |-> mergedCfgMap]

mergeTrustBundlesToConfigMap(additionalData, systemData) ==
    IF Len(additionalData) = 0 \/ Len(systemData) = 0
    THEN [err |-> TRUE, cfgMap |-> EmptyConfigMap]
    ELSE LET combinedTrustData == additionalData \o systemData
             mergedCfgMap == ConfigMap(TRUSTED_CA_BUNDLE_CONFIGMAP_NS,
                                       TRUSTED_CA_BUNDLE_CONFIGMAP,
                                       DataOf(combinedTrustData), "")
         IN  IF validateTrustBundle(mergedCfgMap).err
             THEN [err |-> TRUE, cfgMap |-> EmptyConfigMap]
             ELSE [err |-> FALSE, cfgMap |-> mergedCfgMap]

\* Mutant: a stored derived ConfigMap is taken over as it is.
generateSystemTrustBundle_KeepCurrent ==
    LET bundle == validateSystemTrustBundle
        current == Get(configMaps, TrustedCABundleConfigMap)
    IN  IF bundle.err
        THEN [err |-> TRUE, cfgMap |-> EmptyConfigMap]
        ELSE [err |-> FALSE,
              cfgMap |-> ConfigMap(TRUSTED_CA_BUNDLE_CONFIGMAP_NS,
                                   TRUSTED_CA_BUNDLE_CONFIGMAP,
                                   IF current = NotFound THEN DataOf(bundle.data)
                                   ELSE current.Data, "")]

generateSystemTrustBundle ==
    LET bundle == validateSystemTrustBundle
    IN  IF bundle.err
        THEN [err |-> TRUE, cfgMap |-> EmptyConfigMap]
        ELSE [err |-> FALSE,
              cfgMap |-> ConfigMap(TRUSTED_CA_BUNDLE_CONFIGMAP_NS,
                                   TRUSTED_CA_BUNDLE_CONFIGMAP,
                                   DataOf(bundle.data), "")]

\* Mutant: the whole objects are compared.
configMapsEqual_WholeObject(key, a, b) == a = b

configMapsEqual(key, a, b) == DataGet(a.Data, key) = DataGet(b.Data, key)

\* Calls of Reconcile that can fail for a reason outside the store's content,
\* named by their line in controller.go.  "L246:NotFound" is the proxy
\* having disappeared between the read of line 462 and the read of line 246.
CallSites ==
    {"L108", "L151", "L174", "L180", "L186", "L195", "L204", "L216", "L223",
     "L246", "L246:NotFound", "L289", "L407", "L412", "L419"}

\* The calls on the path of a request.
SitesOf(request) ==
    IF request = Proxy
    THEN {"L108", "L151", "L174", "L180", "L186", "L195", "L407", "L412", "L419"}
    ELSE IF request.Namespace = ADDL_TRUST_BUNDLE_CONFIGMAP_NS
    THEN {"L204", "L216", "L223", "L246", "L246:NotFound", "L289", "L407", "L412", "L419"}
    ELSE {}
FailAts(request) == {"none"} \cup SitesOf(request)

SetDegraded(reason) == [Degraded |-> TRUE, Reason |-> reason]
\* Mutant: the status written after a sync is a degraded one.
SetNotDegraded_Degraded == [Degraded |-> TRUE, Reason |-> ""]

SetNotDegraded == [Degraded |-> FALSE, Reason |-> ""]

\* The invocation ended before the sync stage.
Return(ret, healthWrites, failed, statusSynced) ==
    [stage |-> "done", ret |-> ret, requeue |-> FALSE, health |-> healthWrites,
     failed |-> failed,
     statusSynced |-> statusSynced, trustBundle |-> EmptyConfigMap]

\* The invocation leaves the switch with trustBundle set.
Proceed(trustBundle, statusSynced) ==
    [stage |-> "sync", ret |-> "nil", requeue |-> FALSE, health |-> <<>>,
     failed |-> "none",
     statusSynced |-> statusSynced, trustBundle |-> trustBundle]

\* Mutant: a missing object is reported like any other failed read.
requestNotFound_AsError ==
    Return("error", <<SetDegraded("InvalidProxyConfig")>>, "none", FALSE)

\* Lines 109-113 and 205-209: the request's object is gone; return and
\* don't requeue.
requestNotFound == Return("nil", <<>>, "none", FALSE)

\* Lines 138-171 and 276-308: the trust bundle of a proxy spec.  site is the
\* call of validateTrustedCA that failAt may name.
resolveTrustBundle(spec, failAt, site) ==
    IF ~isSpecTrustedCASet(spec)
    THEN LET g == generateSystemTrustBundle
         IN  IF g.err
             THEN Return("error", <<SetDegraded("GenerateConfigMapFailure")>>, "none", FALSE)
             ELSE Proceed(g.cfgMap, FALSE)
    ELSE LET v == validateTrustedCA(configMaps, spec.TrustedCA.Name, failAt = site)
         IN  IF v.err
             THEN Return("error", <<SetDegraded("InvalidProxyConfig")>>,
                         IF failAt = site THEN site ELSE "none", FALSE)
             ELSE LET m == mergeTrustBundlesToConfigMap(v.proxyData, v.systemData)
                  IN  IF m.err
                      THEN Return("error", <<SetDegraded("ProxyCAMergeFailure")>>, "none", FALSE)
                      ELSE Proceed(m.cfgMap, FALSE)

\* Mutant: the proxy spec is never validated.
validateSpec_Skipped(spec) == FALSE

\* Mutant: the proxy spec is validated whatever fields it sets.
validateSpec_Always(spec) == ValidateProxyConfig(spec)

\* Lines 119-136 and 257-274.
validateSpec(spec) ==
    LET validate == ~(~isSpecHTTPProxySet(spec) /\ ~isSpecHTTPSProxySet(spec)
                      /\ ~isSpecNoProxySet(spec))
    IN  validate /\ ValidateProxyConfig(spec)

\* Mutant: the comparison of the names is inverted.
configMapIsProxyTrustedCA_Inverted(cfgMapName, fails) ==
    \/ fails
    \/ proxy = NotFound
    \/ proxy.TrustedCA.Name = cfgMapName

\* Mutant: the names are not compared.
configMapIsProxyTrustedCA_NoCompare(cfgMapName, fails) ==
    \/ fails
    \/ proxy = NotFound

\* TRUE when the name is not the one the proxy's trustedCA refers to, or the
\* proxy could not be read.
configMapIsProxyTrustedCA(cfgMapName, fails) ==
    \/ fails
    \/ proxy = NotFound
    \/ proxy.TrustedCA.Name # cfgMapName

\* Mutant: a failed sync of the proxy status does not end the invocation.
reconcileProxy_StatusNotGating(request, failAt) ==
    IF failAt = "L108" THEN Return("error", <<>>, "L108", FALSE)
    ELSE IF proxy = NotFound THEN requestNotFound
    ELSE IF validateSpec(proxy)
    THEN Return("error", <<SetDegraded("InvalidProxyConfig")>>, "none", FALSE)
    ELSE LET t == resolveTrustBundle(proxy, failAt, "L151")
         IN  IF t.stage = "done" THEN t
             ELSE IF failAt = "L174"
             THEN Return("error", <<SetDegraded("InfraConfigError")>>, "L174", FALSE)
             ELSE IF failAt = "L180"
             THEN Return("error", <<SetDegraded("NetworkConfigError")>>, "L180", FALSE)
             ELSE IF failAt = "L186"
             THEN Return("error", <<SetDegraded("ClusterConfigError")>>, "L186", FALSE)
             ELSE Proceed(t.trustBundle, failAt # "L195")

\* case request.NamespacedName == names.Proxy(), lines 100-201.
reconcileProxy(request, failAt) ==
    IF failAt = "L108" THEN Return("error", <<>>, "L108", FALSE)
    ELSE IF proxy = NotFound THEN requestNotFound
    ELSE IF validateSpec(proxy)
    THEN Return("error", <<SetDegraded("InvalidProxyConfig")>>, "none", FALSE)
    ELSE LET t == resolveTrustBundle(proxy, failAt, "L151")
         IN  IF t.stage = "done" THEN t
             ELSE IF failAt = "L174"
             THEN Return("error", <<SetDegraded("InfraConfigError")>>, "L174", FALSE)
             ELSE IF failAt = "L180"
             THEN Return("error", <<SetDegraded("NetworkConfigError")>>, "L180", FALSE)
             ELSE IF failAt = "L186"
             THEN Return("error", <<SetDegraded("ClusterConfigError")>>, "L186", FALSE)
             ELSE IF failAt = "L195"
             THEN Return("error", <<SetDegraded("StatusError")>>, "L195", FALSE)
             ELSE Proceed(t.trustBundle, TRUE)

\* case request.Namespace == names.ADDL_TRUST_BUNDLE_CONFIGMAP_NS, lines 202-310.
reconcileConfigMap(request, failAt) ==
    LET trustBundle == Get(configMaps, request)
    IN  IF failAt = "L204" THEN Return("error", <<>>, "L204", FALSE)
        ELSE IF trustBundle = NotFound THEN requestNotFound
        ELSE IF configMapIsProxyTrustedCA(trustBundle.Name, failAt = "L216")
        THEN Return("nil", <<>>, IF failAt = "L216" THEN "L216" ELSE "none", FALSE)
        ELSE LET v == validateTrustedCA(configMaps, trustBundle.Name, failAt = "L223")
                 m == mergeTrustBundlesToConfigMap(v.proxyData, v.systemData)
             IN  IF v.err
                 THEN Return("error", <<SetDegraded("TrustBundleValidationFailure")>>,
                             IF failAt = "L223" THEN "L223" ELSE "none", FALSE)
                 ELSE IF m.err
                 THEN Return("error", <<SetDegraded("EnsureProxyConfigFailure")>>, "none", FALSE)
                 ELSE IF failAt = "L246" THEN Return("error", <<>>, "L246", FALSE)
                 ELSE IF failAt = "L246:NotFound" \/ proxy = NotFound
                 THEN Return("nil", <<>>,
                             IF failAt = "L246:NotFound" THEN failAt ELSE "none", FALSE)
                 ELSE IF validateSpec(proxy)
                 THEN Return("error", <<SetDegraded("InvalidProxyConfig")>>, "none", FALSE)
                 ELSE resolveTrustBundle(proxy, failAt, "L289")

\* Mutant: an unknown object is reported as reconciled.
dispatch_UnknownReported(request, failAt) ==
    IF request = Proxy THEN reconcileProxy(request, failAt)
    ELSE IF request.Namespace = ADDL_TRUST_BUNDLE_CONFIGMAP_NS
    THEN reconcileConfigMap(request, failAt)
    ELSE Return("nil", <<SetNotDegraded>>, "none", FALSE)

\* The switch of Reconcile, lines 99-315.
dispatch(request, failAt) ==
    IF request = Proxy THEN reconcileProxy(request, failAt)
    ELSE IF request.Namespace = ADDL_TRUST_BUNDLE_CONFIGMAP_NS
    THEN reconcileConfigMap(request, failAt)
    ELSE Return("nil", <<>>, "none", FALSE)

\* The steps of syncTrustedCABundle.
syncGet(cms, fails) ==
    LET o == Get(cms, TrustedCABundleConfigMap)
    IN  IF fails THEN [err |-> "Error", currentCfgMap |-> EmptyConfigMap]
        ELSE IF o = NotFound THEN [err |-> "NotFound", currentCfgMap |-> EmptyConfigMap]
        ELSE [err |-> "", currentCfgMap |-> o]

syncUpdate(cms, currentCfgMap, trustedCABundle, fails) ==
    IF ~configMapsEqual(TRUSTED_CA_BUNDLE_CONFIGMAP_KEY, currentCfgMap, trustedCABundle)
    THEN Update(cms, trustedCABundle, fails)
    ELSE [err |-> FALSE, configMaps |-> cms, obj |-> trustedCABundle, writes |-> <<>>]

syncTrustedCABundle(cms, trustedCABundle, failAt) ==
    LET g == syncGet(cms, failAt = "L407")
    IN  IF g.err = "Error"
        THEN [err |-> TRUE, configMaps |-> cms, writes |-> <<>>, got |-> g.err,
              failed |-> "L407"]
        ELSE IF g.err = "NotFound"
        THEN LET c == Create(cms, trustedCABundle, failAt = "L412")
                 u == syncUpdate(c.configMaps, g.currentCfgMap, c.obj, failAt = "L419")
             IN  IF c.err
                 THEN [err |-> TRUE, configMaps |-> cms, writes |-> <<>>, got |-> g.err,
                       failed |-> IF failAt = "L412" THEN "L412" ELSE "none"]
                 ELSE [err |-> u.err, configMaps |-> u.configMaps,
                       writes |-> c.writes \o u.writes, got |-> g.err,
                       failed |-> IF u.err /\ failAt = "L419" THEN "L419" ELSE "none"]
        ELSE LET u == syncUpdate(cms, g.currentCfgMap, trustedCABundle, failAt = "L419")
             IN  [err |-> u.err, configMaps |-> u.configMaps, writes |-> u.writes,
                  got |-> "Found",
                  failed |-> IF u.err /\ failAt = "L419" THEN "L419" ELSE "none"]

\* Reconcile: what one invocation returns and does, run to completion on the
\* current store.
Reconcile(request, failAt) ==
    LET d == dispatch(request, failAt)
        s == syncTrustedCABundle(configMaps, d.trustBundle, failAt)
    IN  IF d.stage = "done"
        THEN [out |-> [invoked |-> TRUE, request |-> request, ret |-> d.ret,
                       requeue |-> d.requeue, health |-> d.health, failed |-> d.failed,
                       statusSynced |-> d.statusSynced, synced |-> FALSE,
                       got |-> "", trustBundle |-> EmptyConfigMap,
                       writes |-> <<>>],
              configMaps |-> configMaps]
        ELSE [out |-> [invoked |-> TRUE, request |-> request,
                       ret |-> IF s.err THEN "error" ELSE "nil",
                       requeue |-> FALSE,
                       health |-> IF s.err
                                  THEN <<SetDegraded("TrustBundleSyncFailure")>>
                                  ELSE <<SetNotDegraded>>,
                       failed |-> s.failed, statusSynced |-> d.statusSynced,
                       synced |-> TRUE, got |-> s.got,
                       trustBundle |-> d.trustBundle, writes |-> s.writes],
              configMaps |-> s.configMaps]

---------------------------------------------------------------------------
(* Sequential specification: the controller runs one Reconcile at a time   *)
(* (controller.Options leaves MaxConcurrentReconciles at 1), each to       *)
(* completion; between invocations users change the proxy and the          *)
(* ConfigMaps of "openshift-config".                                       *)

Workers == {"w1", "w2"}

UnknownRequest == NamespacedName("", "other-proxy")
Requests ==
    {Proxy, UnknownRequest}
        \cup {NamespacedName(ADDL_TRUST_BUNDLE_CONFIGMAP_NS, n) : n \in RefNames}

NoInvocation ==
    [invoked |-> FALSE, request |-> NamespacedName("", ""), ret |-> "nil",
     requeue |-> FALSE, health |-> <<>>, failed |-> "none", statusSynced |-> FALSE,
     synced |-> FALSE, got |-> "", trustBundle |-> EmptyConfigMap,
     writes |-> <<>>]

\* The status manager keeps the last write.
Reported(h, healthWrites) ==
    IF healthWrites = <<>> THEN h ELSE healthWrites[Len(healthWrites)]

NoLocal ==
    [request |-> NamespacedName("", ""), trustedCABundle |-> EmptyConfigMap,
     currentCfgMap |-> EmptyConfigMap, writes |-> <<>>, read |-> 0,
     synced |-> FALSE, ret |-> ""]

NoBudget == [changes |-> 0, faults |-> 0]

Idle ==
    /\ pc = [w \in Workers |-> "idle"]
    /\ local = [w \in Workers |-> NoLocal]

Init ==
    /\ proxy = NotFound
    /\ configMaps = [k \in ConfigMapKeys |-> NotFound]
    /\ systemTrustBundle \in SystemData
    /\ health = SetNotDegraded
    /\ last = NoInvocation
    /\ Idle
    /\ queue = {}
    /\ budget = NoBudget

DoReconcile(request, failAt) ==
    LET o == Reconcile(request, failAt)
    IN  /\ configMaps' = o.configMaps
        /\ health' = Reported(health, o.out.health)
        /\ last' = o.out
        /\ UNCHANGED <<proxy, systemTrustBundle, pc, local, queue, budget>>

UpdateProxy(spec) ==
    /\ proxy # spec
    /\ proxy' = spec
    /\ last' = NoInvocation
    /\ UNCHANGED <<configMaps, systemTrustBundle, health, pc, local, queue, budget>>

DeleteProxy ==
    /\ proxy # NotFound
    /\ proxy' = NotFound
    /\ last' = NoInvocation
    /\ UNCHANGED <<configMaps, systemTrustBundle, health, pc, local, queue, budget>>

SourceConfigMap(n, bytes) ==
    ConfigMap(ADDL_TRUST_BUNDLE_CONFIGMAP_NS, n, DataOf(bytes), "current")

UpdateConfigMap(n, bytes) ==
    LET key == NamespacedName(ADDL_TRUST_BUNDLE_CONFIGMAP_NS, n)
    IN  /\ configMaps[key] # SourceConfigMap(n, bytes)
        /\ configMaps' = [configMaps EXCEPT ![key] = SourceConfigMap(n, bytes)]
        /\ last' = NoInvocation
        /\ UNCHANGED <<proxy, systemTrustBundle, health, pc, local, queue, budget>>

DeleteConfigMap(n) ==
    LET key == NamespacedName(ADDL_TRUST_BUNDLE_CONFIGMAP_NS, n)
    IN  /\ configMaps[key] # NotFound
        /\ configMaps' = [configMaps EXCEPT ![key] = NotFound]
        /\ last' = NoInvocation
        /\ UNCHANGED <<proxy, systemTrustBundle, health, pc, local, queue, budget>>

Next ==
    \/ \E request \in Requests : \E failAt \in FailAts(request) :
          DoReconcile(request, failAt)
    \/ \E spec \in ProxySpecs : UpdateProxy(spec)
    \/ DeleteProxy
    \/ \E n \in CMNames, bytes \in CMData : UpdateConfigMap(n, bytes)
    \/ \E n \in CMNames : DeleteConfigMap(n)

Spec == Init /\ [][Next]_vars

---------------------------------------------------------------------------
(* Concurrent specification: two invocations of Reconcile, for different   *)
(* requests, run at once.  The switch of Reconcile is one step; the Get,   *)
(* the Create and the Update of syncTrustedCABundle are steps of their own *)
(* that interleave with the other invocation and with changes of the       *)
(* inputs.                                                                 *)

\* Changes of the proxy and the ConfigMaps in a behaviour.
MaxChanges == 2

\* The proxy specs of the concurrent behaviours: none of httpProxy,
\* httpsProxy, noProxy, readinessEndpoints set, any trustedCA.
ConcProxySpecs == {spec \in ProxySpecs : CountSet(spec) = 0}

DefaultProxy ==
    [HTTPProxy |-> "", HTTPSProxy |-> "", NoProxy |-> "",
     ReadinessEndpoints |-> <<>>, TrustedCA |-> [Name |-> ""]]

ConcInit ==
    /\ proxy = DefaultProxy
    /\ configMaps =
         [k \in ConfigMapKeys |->
            IF k \in SourceKeys THEN SourceConfigMap(k.Name, <<"A">>) ELSE NotFound]
    /\ systemTrustBundle = <<"S">>
    /\ health = SetNotDegraded
    /\ last = NoInvocation
    /\ Idle
    /\ queue = {}
    /\ budget = [changes |-> MaxChanges, faults |-> 0]

\* A write by worker w replaces the stored version: the version another
\* worker's object carries is no longer the stored one.
Outdated(w, loc) ==
    [v \in Workers |->
        IF v # w /\ loc[v].trustedCABundle.ResourceVersion = "current"
        THEN [loc[v] EXCEPT !.trustedCABundle.ResourceVersion = "stale"]
        ELSE loc[v]]

\* Lines 318-331: the end of the invocation of worker w.
Finish(w, loc, err) ==
    /\ pc' = [pc EXCEPT ![w] = "done"]
    /\ local' = [loc EXCEPT ![w].ret = IF err THEN "error" ELSE "nil"]
    /\ health' = IF err THEN SetDegraded("TrustBundleSyncFailure") ELSE SetNotDegraded

\* Lines 96-315: worker w takes a request no other worker holds and runs
\* the switch.
Start(w, request) ==
    LET d == dispatch(request, "none")
    IN  /\ pc[w] \in {"idle", "done"}
        /\ \A v \in Workers \ {w} : pc[v] \in {"idle", "done"} \/ local[v].request # request
        /\ IF d.stage = "done"
           THEN /\ pc' = [pc EXCEPT ![w] = "done"]
                /\ local' = [local EXCEPT ![w] =
                                [NoLocal EXCEPT !.request = request, !.ret = d.ret,
                                                !.read = budget.changes]]
                /\ health' = Reported(health, d.health)
           ELSE /\ pc' = [pc EXCEPT ![w] = "syncGet"]
                /\ local' = [local EXCEPT ![w] =
                                [NoLocal EXCEPT !.request = request,
                                                !.trustedCABundle = d.trustBundle,
                                                !.read = budget.changes,
                                                !.synced = TRUE]]
                /\ health' = health
        /\ UNCHANGED <<proxy, configMaps, systemTrustBundle, last, queue, budget>>

\* Line 407.
SyncGet(w) ==
    LET g == syncGet(configMaps, FALSE)
    IN  /\ pc[w] = "syncGet"
        /\ pc' = [pc EXCEPT ![w] = IF g.err = "NotFound" THEN "syncCreate" ELSE "syncUpdate"]
        /\ local' = [local EXCEPT ![w].currentCfgMap = g.currentCfgMap]
        /\ UNCHANGED <<proxy, configMaps, systemTrustBundle, health, last, queue, budget>>

\* Lines 412-415.
SyncCreate(w) ==
    LET c == Create(configMaps, local[w].trustedCABundle, FALSE)
        loc == [local EXCEPT ![w].trustedCABundle = c.obj,
                             ![w].writes = @ \o c.writes]
    IN  /\ pc[w] = "syncCreate"
        /\ configMaps' = c.configMaps
        /\ IF c.err
           THEN Finish(w, local, TRUE)
           ELSE /\ pc' = [pc EXCEPT ![w] = "syncUpdate"]
                /\ local' = Outdated(w, loc)
                /\ health' = health
        /\ UNCHANGED <<proxy, systemTrustBundle, last, queue, budget>>

\* Lines 418-425.
SyncUpdate(w) ==
    LET u == syncUpdate(configMaps, local[w].currentCfgMap, local[w].trustedCABundle, FALSE)
        loc == [local EXCEPT ![w].trustedCABundle = u.obj,
                             ![w].writes = @ \o u.writes]
    IN  /\ pc[w] = "syncUpdate"
        /\ configMaps' = u.configMaps
        /\ IF u.err
           THEN Finish(w, local, TRUE)
           ELSE Finish(w, IF u.writes = <<>> THEN loc ELSE Outdated(w, loc), FALSE)
        /\ UNCHANGED <<proxy, systemTrustBundle, last, queue, budget>>

ChangeProxy(spec) ==
    /\ budget.changes > 0
    /\ proxy # spec
    /\ proxy' = spec
    /\ budget' = [budget EXCEPT !.changes = @ - 1]
    /\ UNCHANGED <<configMaps, systemTrustBundle, health, last, pc, local, queue>>

ChangeConfigMap(n, bytes) ==
    LET key == NamespacedName(ADDL_TRUST_BUNDLE_CONFIGMAP_NS, n)
    IN  /\ budget.changes > 0
        /\ configMaps[key] # SourceConfigMap(n, bytes)
        /\ configMaps' = [configMaps EXCEPT ![key] = SourceConfigMap(n, bytes)]
        /\ budget' = [budget EXCEPT !.changes = @ - 1]
        /\ UNCHANGED <<proxy, systemTrustBundle, health, last, pc, local, queue>>

ConcNext ==
    \/ \E w \in Workers, request \in Requests : Start(w, request)
    \/ \E w \in Workers : SyncGet(w)
    \/ \E w \in Workers : SyncCreate(w)
    \/ \E w \in Workers : SyncUpdate(w)
    \/ \E spec \in ConcProxySpecs : ChangeProxy(spec)
    \/ \E n \in CMNames, bytes \in CMData : ChangeConfigMap(n, bytes)

ConcSpec == ConcInit /\ [][ConcNext]_vars

---------------------------------------------------------------------------
(* Queue specification: the watches of add enqueue a request for every     *)
(* change of the proxy or of a ConfigMap of "openshift-config"; the        *)
(* controller takes one request at a time off the queue and runs Reconcile *)
(* to completion; a request whose Reconcile returns an error is put back.  *)
(* Inputs change, and store calls fail, finitely often.                    *)

\* Store calls that fail in a behaviour.
MaxFaults == 1

\* Contents of "user-ca" in the queue behaviours: two valid bundles.
QueueCMData == {<<"A">>, <<"A", "A">>}

\* Calls that fail for a passing reason of the store.
TransientSites == CallSites \ {"L246:NotFound"}

QueueInit ==
    /\ proxy = NotFound
    /\ configMaps = [k \in ConfigMapKeys |-> NotFound]
    /\ systemTrustBundle = <<"S">>
    /\ health = SetNotDegraded
    /\ last = NoInvocation
    /\ Idle
    /\ queue = {}
    /\ budget = [changes |-> MaxChanges + 1, faults |-> MaxFaults]

\* The controller's worker: one request off the queue, Reconcile, and the
\* request back on the queue when Reconcile returned an error.
Process(request) ==
    /\ request \in queue
    /\ \E failAt \in {"none"} \cup (SitesOf(request) \cap TransientSites) :
         LET o == Reconcile(request, failAt)
         IN  /\ failAt # "none" => budget.faults > 0 /\ o.out.failed = failAt
             /\ configMaps' = o.configMaps
             /\ health' = Reported(health, o.out.health)
             /\ queue' = IF o.out.ret = "error" \/ o.out.requeue
                         THEN queue ELSE queue \ {request}
             /\ budget' = IF failAt = "none" THEN budget
                          ELSE [budget EXCEPT !.faults = @ - 1]
    /\ UNCHANGED <<proxy, systemTrustBundle, last, pc, local>>

\* The watch of the proxy resource (line 70).
WatchProxy(spec) ==
    /\ budget.changes > 0
    /\ proxy # spec
    /\ proxy' = spec
    /\ queue' = queue \cup {Proxy}
    /\ budget' = [budget EXCEPT !.changes = @ - 1]
    /\ UNCHANGED <<configMaps, systemTrustBundle, health, last, pc, local>>

\* The watch of ConfigMaps (line 64); handleConfigMap admits the namespace
\* "openshift-config".
WatchConfigMap(n, bytes) ==
    LET key == NamespacedName(ADDL_TRUST_BUNDLE_CONFIGMAP_NS, n)
    IN  /\ budget.changes > 0
        /\ configMaps[key] # SourceConfigMap(n, bytes)
        /\ configMaps' = [configMaps EXCEPT ![key] = SourceConfigMap(n, bytes)]
        /\ queue' = queue \cup {key}
        /\ budget' = [budget EXCEPT !.changes = @ - 1]
        /\ UNCHANGED <<proxy, systemTrustBundle, health, last, pc, local>>

QueueNext ==
    \/ \E request \in Requests : Process(request)
    \/ \E spec \in ConcProxySpecs : WatchProxy(spec)
    \/ \E n \in CMNames, bytes \in QueueCMData : WatchConfigMap(n, bytes)

\* The controller keeps working while the queue holds a request.
QueueSpec ==
    /\ QueueInit
    /\ [][QueueNext]_vars
    /\ \A request \in Requests : WF_vars(Process(request))

---------------------------------------------------------------------------
(* Properties of the sequential specification.                             *)

DerivedData(cms) ==
    LET o == Get(cms, TrustedCABundleConfigMap)
    IN  IF o = NotFound THEN <<>>
        ELSE DataGet(o.Data, TRUSTED_CA_BUNDLE_CONFIGMAP_KEY)

CandidateData(inv) == DataGet(inv.trustBundle.Data, TRUSTED_CA_BUNDLE_CONFIGMAP_KEY)

Ops(writes) == [i \in 1..Len(writes) |-> writes[i].Op]

\* A step that is a successful sync directly after a successful sync of
\* the same candidate, with no store activity in between.
SyncAfterSync ==
    /\ last.invoked /\ last.synced /\ last.ret = "nil"
    /\ last'.invoked /\ last'.synced /\ last'.ret = "nil"
    /\ last'.trustBundle = last.trustBundle

\* C1: two consecutive calls of syncTrustedCABundle with the same candidate
\* and no other store activity in between issue at most one write (Create
\* or Update) in total, and the second call issues none.
C1_SyncIdempotent ==
    [][SyncAfterSync =>
          /\ Len(last.writes) + Len(last'.writes) <= 1
          /\ last'.writes = <<>>]_vars

\* C2: when the Get of the derived ConfigMap reports not-found, a sync that
\* succeeds commits exactly one write, a Create of the candidate, and no
\* Update; and every sync commits at most one write.
C2_NotFoundCreatesOnce ==
    last.invoked /\ last.synced =>
        /\ Len(last.writes) <= 1
        /\ (last.got = "NotFound" /\ last.ret = "nil") =>
              last.writes = <<WriteOf("Create", last.trustBundle)>>

\* C3: when the derived ConfigMap exists, the sync compares only the value
\* under "ca-bundle.crt": equal values, no write, whatever else differs;
\* different values, exactly one Update (unless the Update call fails) and
\* never a Create.
C3_FoundComparesDataKey ==
    [][(last'.invoked /\ last'.synced /\ last'.failed # "L407"
         /\ Get(configMaps, TrustedCABundleConfigMap) # NotFound) =>
          IF DerivedData(configMaps) = CandidateData(last')
          THEN /\ last'.writes = <<>>
               /\ configMaps' = configMaps
               /\ last'.ret = "nil"
          ELSE \/ /\ last'.failed = "L419"
                  /\ last'.writes = <<>>
                  /\ configMaps' = configMaps
               \/ /\ last'.writes = <<WriteOf("Update", last'.trustBundle)>>
                  /\ DerivedData(configMaps') = CandidateData(last')]_vars

\* C3 witness: a sync found stale data and issued one Update.
C3_Witness ==
    /\ last.invoked /\ last.synced /\ last.got = "Found"
    /\ Ops(last.writes) = <<"Update">>
    /\ Get(configMaps, TrustedCABundleConfigMap).ResourceVersion
         # last.trustBundle.ResourceVersion

OnlyDerivedArtifact(cms) ==
    \A k \in DOMAIN cms :
        cms[k] # NotFound =>
            /\ KeyOf(cms[k]) = k
            /\ k \in SourceKeys \/ k = TrustedCABundleConfigMap

\* The bytes of the ConfigMap the proxy's trustedCA refers to.
SourceData ==
    DataGet(Get(configMaps, NamespacedName(ADDL_TRUST_BUNDLE_CONFIGMAP_NS,
                                           proxy.TrustedCA.Name)).Data,
            TRUSTED_CA_BUNDLE_CONFIGMAP_KEY)

SourceExists ==
    /\ proxy # NotFound
    /\ proxy.TrustedCA.Name # ""
    /\ Get(configMaps, NamespacedName(ADDL_TRUST_BUNDLE_CONFIGMAP_NS,
                                      proxy.TrustedCA.Name)) # NotFound

\* C4: from a store without the derived ConfigMap, whatever Reconcile
\* invocations run: the only ConfigMap outside "openshift-config" is the one
\* at openshift-config-managed/trusted-ca-bundle, and whenever it is written
\* its "ca-bundle.crt" is a valid bundle that is either the system bundle
\* alone or the bytes of the ConfigMap the proxy's trustedCA refers to, as
\* the writing invocation read them, followed by the system bundle.
C4_DerivedContent ==
    [][/\ OnlyDerivedArtifact(configMaps')
       /\ Get(configMaps', TrustedCABundleConfigMap)
             # Get(configMaps, TrustedCABundleConfigMap) =>
            /\ CertificateData(DerivedData(configMaps'))
            /\ \/ DerivedData(configMaps') = systemTrustBundle
               \/ /\ SourceExists
                  /\ DerivedData(configMaps') = SourceData \o systemTrustBundle]_vars

\* C4 witness: the derived ConfigMap holds the merged bundle that the last
\* invocation wrote.
C4_Witness ==
    /\ last.invoked /\ last.writes # <<>>
    /\ SourceExists
    /\ DerivedData(configMaps) = <<"A">> \o systemTrustBundle

\* Inputs on which the stages before the sync fail.
SpecRejected ==
    /\ proxy.HTTPProxy # "" \/ proxy.HTTPSProxy # "" \/ proxy.NoProxy # ""
    /\ ValidateProxyConfig(proxy)

BundleUnresolvable ==
    IF proxy.TrustedCA.Name = ""
    THEN ~CertificateData(systemTrustBundle)
    ELSE \/ ~SourceExists
         \/ Len(SourceData) = 0
         \/ Len(systemTrustBundle) = 0
         \/ ~CertificateData(SourceData \o systemTrustBundle)

\* The request passes the admission of its case in the current store.
Admitted(request) ==
    /\ proxy # NotFound
    /\ \/ request = Proxy
       \/ /\ request.Namespace = ADDL_TRUST_BUNDLE_CONFIGMAP_NS
          /\ Get(configMaps, request) # NotFound
          /\ proxy.TrustedCA.Name = request.Name

\* C5: an admitted invocation in which the validation of the proxy spec, the
\* fetch or validation of the referenced ConfigMap, the generation of the
\* system bundle or the merge fails never calls the sync, issues no Create
\* or Update, leaves the stored ConfigMaps as they were and returns an error.
C5_FailSafe ==
    [][(/\ last'.invoked
        /\ Admitted(last'.request)
        /\ last'.failed \in {"none", "L151", "L223", "L289"}
        /\ \/ SpecRejected
           \/ BundleUnresolvable
           \/ last'.failed \in {"L151", "L223", "L289"}) =>
          /\ ~last'.synced
          /\ last'.writes = <<>>
          /\ configMaps' = configMaps
          /\ last'.ret = "error"]_vars

\* C5 witness: the merge failed while a derived ConfigMap was stored.
C5_Witness ==
    /\ last.invoked /\ last.ret = "error"
    /\ last.health = <<SetDegraded("ProxyCAMergeFailure")>>
    /\ Get(configMaps, TrustedCABundleConfigMap) # NotFound

\* What an invocation leaves behind: the writes it issued, the derived data
\* and the health signal after it.
Outcome(o) ==
    [writes |-> o.out.writes,
     data |-> DerivedData(o.configMaps),
     degraded |-> Reported(health, o.out.health).Degraded]

SourceRequests ==
    {NamespacedName(ADDL_TRUST_BUNDLE_CONFIGMAP_NS, n) : n \in RefNames}

\* Reads of the proxy case that the ConfigMap case does not make.
AuxiliarySites == {"L174", "L180", "L186", "L195"}

C9_ReferenceMismatch ==
    [][(/\ last'.invoked
        /\ last'.request.Namespace = ADDL_TRUST_BUNDLE_CONFIGMAP_NS
        /\ last'.failed = "none"
        /\ Get(configMaps, last'.request) # NotFound
        /\ proxy # NotFound
        /\ proxy.TrustedCA.Name # last'.request.Name) =>
          /\ last'.ret = "nil"
          /\ last'.health = <<>>
          /\ last'.writes = <<>>
          /\ ~last'.synced /\ ~last'.statusSynced
          /\ configMaps' = configMaps
          /\ health' = health]_vars

\* C9 witness: a mismatching request was reconciled while the health signal
\* was degraded and the derived ConfigMap stored.
C9_Witness ==
    /\ last.invoked /\ last.failed = "none"
    /\ last.request = NamespacedName(ADDL_TRUST_BUNDLE_CONFIGMAP_NS, "user-ca")
    /\ Get(configMaps, last.request) # NotFound
    /\ proxy # NotFound /\ proxy.TrustedCA.Name = "other-ca"
    /\ health.Degraded
    /\ Get(configMaps, TrustedCABundleConfigMap) # NotFound

\* The object a request names is not in the store.
TriggerNotFound(request) ==
    \/ request = Proxy /\ proxy = NotFound
    \/ /\ request.Namespace = ADDL_TRUST_BUNDLE_CONFIGMAP_NS
       /\ Get(configMaps, request) = NotFound

\* C10: when the Get of the object the request names reports not-found,
\* Reconcile returns no error and no requeue, writes no health status (a
\* degraded signal stays degraded) and nothing to the store.
C10_NotFoundBenign ==
    [][(/\ last'.invoked
        /\ last'.failed = "none"
        /\ TriggerNotFound(last'.request)) =>
          /\ last'.ret = "nil" /\ ~last'.requeue
          /\ last'.health = <<>>
          /\ last'.writes = <<>>
          /\ ~last'.synced /\ ~last'.statusSynced
          /\ configMaps' = configMaps
          /\ health' = health]_vars

\* C10 witness: the proxy was gone when its request was reconciled, and the
\* health signal was degraded.
C10_Witness ==
    /\ last.invoked /\ last.request = Proxy /\ last.failed = "none"
    /\ proxy = NotFound
    /\ health.Degraded

---------------------------------------------------------------------------
(* Properties of the concurrent specification.                             *)

\* C8: of two interleaved invocations, one that read older inputs never
\* leaves its data in the derived ConfigMap, returning no error, after one
\* that read the current inputs has completed its sync: when both are done
\* without error, the derived ConfigMap holds the data of the invocation
\* that read the current inputs.
C8_NoSilentStaleOverwrite ==
    \A v \in Workers, w \in Workers :
        (/\ v # w
         /\ pc[v] = "done" /\ pc[w] = "done"
         /\ local[v].ret = "nil" /\ local[w].ret = "nil"
         /\ local[v].synced
         /\ local[w].synced /\ local[w].writes # <<>>
         /\ local[v].read = budget.changes
         /\ local[w].read > budget.changes) =>
            DerivedData(configMaps)
                = DataGet(local[v].trustedCABundle.Data, TRUSTED_CA_BUNDLE_CONFIGMAP_KEY)

---------------------------------------------------------------------------
(* Properties of the queue specification.                                  *)

\* The proxy spec passes validation and its trust bundle resolves.
Resolvable == proxy # NotFound /\ ~SpecRejected /\ ~BundleUnresolvable

ResolvedData ==
    IF proxy.TrustedCA.Name = "" THEN systemTrustBundle
    ELSE SourceData \o systemTrustBundle

\* C7: once the proxy and the referenced ConfigMap stop changing in a state
\* that resolves to a valid bundle, with a Reconcile enqueued for every
\* change and failed invocations retried, the derived ConfigMap comes to
\* hold the resolved bundle.  The queue being empty, nothing is left that
\* would bring it there: whenever the queue is empty and the inputs
\* resolve, the derived ConfigMap holds the resolved bundle.
C7_QuiescentConsistent ==
    (queue = {} /\ Resolvable) => DerivedData(configMaps) = ResolvedData

---------------------------------------------------------------------------
(* Error handling of one invocation (sequential specification).            *)

\* The store reads of an input: the proxy (lines 108, 246 and, inside
\* configMapIsProxyTrustedCA, 462 called at 216), the triggering ConfigMap
\* (line 204) and the referenced ConfigMap (validateTrustedCA, lines 151,
\* 223, 289).
InputReadSites == {"L108", "L204", "L216", "L246", "L151", "L223", "L289"}

\* C11: whenever a store Get of an input (the proxy or the source ConfigMap,
\* on either path, the proxy read of the trustedCA admission check included)
\* fails with an error other than not-found, Reconcile returns an error.
C11_FetchErrorReturnsError ==
    (last.invoked /\ last.failed \in InputReadSites) => last.ret = "error"

\* C12: every invocation that returns an error has made exactly one write to
\* the status manager, a SetDegraded, before returning.
C12_FatalReportedOnce ==
    (last.invoked /\ last.ret = "error") =>
        /\ Len(last.health) = 1
        /\ last.health[1].Degraded

\* C13: an invocation that reaches the sync stage makes exactly one write to
\* the status manager: SetNotDegraded, returning no error, exactly when
\* syncTrustedCABundle returned no error, and otherwise SetDegraded with
\* reason "TrustBundleSyncFailure", returning an error.  The derived
\* ConfigMap changes only in a step of an invocation that called the sync
\* and issued a write there.
C13_SyncStageReportsOnce ==
    [][/\ (last'.invoked /\ last'.synced) =>
            LET s == syncTrustedCABundle(configMaps, last'.trustBundle, last'.failed)
            IN  /\ Len(last'.health) = 1
                /\ health' = last'.health[1]
                /\ IF s.err
                   THEN /\ last'.health[1] =
                             [Degraded |-> TRUE, Reason |-> "TrustBundleSyncFailure"]
                        /\ last'.ret = "error"
                   ELSE /\ last'.health[1].Degraded = FALSE
                        /\ last'.ret = "nil"
       /\ (last'.invoked /\ ~last'.synced) => last'.writes = <<>>
       /\ Get(configMaps', TrustedCABundleConfigMap)
             # Get(configMaps, TrustedCABundleConfigMap) =>
            /\ last'.invoked /\ last'.synced
            /\ last'.writes # <<>>]_vars

\* C13 witness: the Update of the sync failed while the health signal was
\* not degraded; the invocation wrote the one degraded status.
C13_Witness ==
    /\ last.invoked /\ last.synced /\ last.failed = "L419"
    /\ last.ret = "error"
    /\ last.health = <<SetDegraded("TrustBundleSyncFailure")>>
    /\ health = SetDegraded("TrustBundleSyncFailure")

\* C14: whenever the proxy spec sets at least one of httpProxy, httpsProxy,
\* noProxy and fails validation, an admitted invocation (of the proxy, or of
\* the ConfigMap the trustedCA refers to) ends with the health signal
\* degraded with reason "InvalidProxyConfig", whatever the referenced trust
\* bundle holds.
C14_InvalidSpecReason ==
    (last.invoked /\ last.failed = "none"
        /\ Admitted(last.request) /\ SpecRejected) =>
        /\ last.ret = "error"
        /\ health = SetDegraded("InvalidProxyConfig")

\* The step at which an admitted invocation of the request fails before the
\* sync in the current store, when the fetch of the referenced ConfigMap
\* fails (fetchFails) or not: "spec" the validation of the proxy spec,
\* "fetch" the fetch of the referenced ConfigMap, "merge" the merge of the
\* bundles, "" any other step or none.
FailureClass(request, fetchFails) ==
    LET mergeFails == mergeTrustBundlesToConfigMap(SourceData, systemTrustBundle).err
    IN  IF request = Proxy
        THEN IF SpecRejected THEN "spec"
             ELSE IF proxy.TrustedCA.Name = "" THEN ""
             ELSE IF fetchFails \/ ~SourceExists THEN "fetch"
             ELSE IF mergeFails THEN "merge"
             ELSE ""
        ELSE IF fetchFails THEN "fetch"
             ELSE IF mergeFails THEN "merge"
             ELSE IF SpecRejected THEN "spec"
             ELSE ""

\* The first fetch of the referenced ConfigMap on the path of the request.
FetchSite(request) == IF request = Proxy THEN "L151" ELSE "L223"

\* The health reason of an invocation of the request in the current store.
ReasonAt(request, fetchFails) ==
    LET o == Reconcile(request, IF fetchFails THEN FetchSite(request) ELSE "none").out
    IN  IF o.health = <<>> THEN "" ELSE o.health[1].Reason

\* C15: the reason codes are distinct per failure class and stable: of two
\* admitted invocations that fail at the validation of the proxy spec, the
\* fetch of the referenced ConfigMap or the merge, whatever their requests,
\* the reason codes are the same exactly when the failure classes are.
C15_ReasonPerClass ==
    \A r1 \in {Proxy} \cup SourceRequests, r2 \in {Proxy} \cup SourceRequests :
      \A f1 \in BOOLEAN, f2 \in BOOLEAN :
        (/\ Admitted(r1) /\ Admitted(r2)
         /\ FailureClass(r1, f1) # "" /\ FailureClass(r2, f2) # "") =>
            (FailureClass(r1, f1) = FailureClass(r2, f2)
                <=> ReasonAt(r1, f1) = ReasonAt(r2, f2))

\* None of httpProxy, httpsProxy, noProxy is set in the stored proxy.
ProxyFieldsEmpty ==
    proxy.HTTPProxy = "" /\ proxy.HTTPSProxy = "" /\ proxy.NoProxy = ""

\* C16: when httpProxy, httpsProxy and noProxy of the proxy are all empty,
\* the spec is not validated, whatever readinessEndpoints and trustedCA
\* hold: an admitted invocation in which no call fails goes on to the trust
\* bundle, so that it reaches the sync exactly when the bundle resolves, and
\* an error it returns is one of the trust bundle.
C16_ValidationSkip ==
    [][(/\ last'.invoked /\ last'.failed = "none"
        /\ Admitted(last'.request)
        /\ ProxyFieldsEmpty) =>
          /\ last'.synced <=> ~BundleUnresolvable
          /\ ~BundleUnresolvable => last'.ret = "nil"
          /\ BundleUnresolvable =>
               /\ Len(last'.health) = 1
               /\ last'.health[1].Reason \in
                    IF proxy.TrustedCA.Name = "" THEN {"GenerateConfigMapFailure"}
                    ELSE IF ~SourceExists THEN {"InvalidProxyConfig"}
                    ELSE {"ProxyCAMergeFailure", "EnsureProxyConfigFailure"}]_vars

\* C16 witness: a proxy with a malformed readinessEndpoints entry and none
\* of the three fields set was reconciled and synced.
C16_Witness ==
    /\ last.invoked /\ last.request = Proxy /\ last.failed = "none"
    /\ proxy # NotFound /\ ProxyFieldsEmpty
    /\ proxy.ReadinessEndpoints = <<"not-a-url">>
    /\ ValidateProxyConfig(proxy)
    /\ last.synced /\ last.ret = "nil"

\* C19: the candidate of an invocation that reaches the sync is a function
\* of the proxy spec, the content of the referenced ConfigMap and the system
\* bundle it read: the system bundle alone when trustedCA is unset, the
\* referenced bytes followed by the system bundle otherwise, with the same
\* name and key, whatever the request, whatever the derived ConfigMap holds,
\* whatever happened in earlier invocations and whichever call of the sync
\* fails.
C19_Determinism ==
    [][(last'.invoked /\ last'.synced) =>
          /\ proxy # NotFound
          /\ last'.trustBundle =
                ConfigMap(TRUSTED_CA_BUNDLE_CONFIGMAP_NS, TRUSTED_CA_BUNDLE_CONFIGMAP,
                          DataOf(ResolvedData), "")]_vars

\* C19 witness: a Reconcile of the referenced ConfigMap replaced a derived
\* ConfigMap that held other data.
C19_Witness ==
    /\ last.invoked /\ last.request \in SourceRequests
    /\ last.synced /\ last.got = "Found"
    /\ Ops(last.writes) = <<"Update">>
    /\ CandidateData(last) = ResolvedData

\* C20: a Reconcile never removes the derived ConfigMap, issues Create and
\* Update for no identity but openshift-config-managed/trusted-ca-bundle,
\* and leaves the proxy and the ConfigMaps of "openshift-config" as they
\* are; the derived ConfigMap changes only by a write of the sync.
C20_OwnershipFrame ==
    [][/\ last'.invoked =>
            /\ proxy' = proxy
            /\ systemTrustBundle' = systemTrustBundle
            /\ DOMAIN configMaps' = DOMAIN configMaps
            /\ \A k \in SourceKeys : configMaps'[k] = configMaps[k]
            /\ \A i \in 1..Len(last'.writes) :
                  /\ last'.writes[i].Key = TrustedCABundleConfigMap
                  /\ last'.writes[i].Op \in {"Create", "Update"}
            /\ Get(configMaps, TrustedCABundleConfigMap) # NotFound =>
                  Get(configMaps', TrustedCABundleConfigMap) # NotFound
       /\ Get(configMaps', TrustedCABundleConfigMap)
             # Get(configMaps, TrustedCABundleConfigMap) =>
            /\ last'.invoked /\ last'.synced
            /\ last'.writes # <<>>
            /\ DerivedData(configMaps') = last'.writes[Len(last'.writes)].Data]_vars

\* C20 witness: a Reconcile of the proxy updated the derived ConfigMap while
\* the referenced ConfigMap was stored.
C20_Witness ==
    /\ last.invoked /\ last.request = Proxy
    /\ SourceExists
    /\ Ops(last.writes) = <<"Update">>
    /\ Get(configMaps, TrustedCABundleConfigMap) # NotFound

\* The reason reported when a step of lines 173-200 fails.
AuxiliaryReason(site) ==
    CASE site = "L174" -> "InfraConfigError"
      [] site = "L180" -> "NetworkConfigError"
      [] site = "L186" -> "ClusterConfigError"
      [] site = "L195" -> "StatusError"

\* C21: a Reconcile of the proxy calls the sync only after the reads of the
\* infrastructure config, the network config and cluster-config-v1 and the
\* sync of the proxy status have succeeded; when one of the four fails, a
\* valid candidate being resolved already, the invocation reports degraded
\* with InfraConfigError, NetworkConfigError, ClusterConfigError or
\* StatusError, returns an error and writes nothing to the store.  A
\* Reconcile of a ConfigMap makes none of these steps and syncs without
\* them.
C21_ProxyPathOrdering ==
    [][last'.invoked =>
          /\ (last'.request = Proxy /\ last'.synced) => last'.statusSynced
          /\ (last'.request = Proxy /\ last'.failed \in AuxiliarySites) =>
                /\ proxy # NotFound /\ ~SpecRejected /\ ~BundleUnresolvable
                /\ last'.ret = "error"
                /\ last'.health = <<SetDegraded(AuxiliaryReason(last'.failed))>>
                /\ health' = SetDegraded(AuxiliaryReason(last'.failed))
                /\ ~last'.synced
                /\ last'.writes = <<>>
                /\ configMaps' = configMaps
          /\ last'.request \in SourceRequests =>
                /\ last'.failed \notin AuxiliarySites
                /\ ~last'.statusSynced
                /\ (Admitted(last'.request) /\ last'.failed = "none"
                      /\ ~SpecRejected /\ ~BundleUnresolvable) =>
                        last'.synced /\ last'.ret = "nil"]_vars

\* C21 witness: the sync of the proxy status failed after the merged bundle
\* was resolved, and the store holds no derived ConfigMap.
C21_Witness ==
    /\ last.invoked /\ last.request = Proxy /\ last.failed = "L195"
    /\ SourceExists /\ ~BundleUnresolvable
    /\ health = SetDegraded("StatusError")
    /\ Get(configMaps, TrustedCABundleConfigMap) = NotFound

\* C22: an invocation writes the health status at most once; one that wrote
\* SetDegraded returns an error; one that wrote SetNotDegraded returns nil
\* after a sync that succeeded, the derived ConfigMap holding the candidate;
\* one that returns nil without reaching the sync (object not found,
\* reference mismatch, unknown identity) writes neither the health status
\* nor the store.
C22_HealthReturnCoupling ==
    [][last'.invoked =>
          /\ Len(last'.health) <= 1
          /\ (last'.health # <<>> /\ last'.health[1].Degraded) =>
                last'.ret = "error"
          /\ (last'.health # <<>> /\ ~last'.health[1].Degraded) =>
                /\ last'.ret = "nil"
                /\ last'.synced
                /\ DerivedData(configMaps') = CandidateData(last')
          /\ (last'.ret = "nil" /\ ~last'.synced) =>
                /\ last'.health = <<>>
                /\ health' = health
                /\ last'.writes = <<>>
                /\ configMaps' = configMaps]_vars

\* C22 witness: a request of an unknown identity was reconciled while the
\* health signal was degraded and the derived ConfigMap stored.
C22_Witness ==
    /\ last.invoked /\ last.request = UnknownRequest
    /\ last.ret = "nil" /\ last.health = <<>>
    /\ health.Degraded
    /\ Get(configMaps, TrustedCABundleConfigMap) # NotFound

---------------------------------------------------------------------------
(* Merge specification: mergeTrustBundlesToConfigMap applied to every pair *)
(* of byte slices of a bounded length, directly and by a Reconcile of the  *)
(* proxy whose trustedCA refers to "user-ca".  The additional data is the  *)
(* content of "user-ca", the system data the system trust bundle.          *)

\* Blocks in a byte slice.
MaxBlocks == 2

Blocks == {"A", "S", "X"}
MergeData == UNION {[1..n -> Blocks] : n \in 0..MaxBlocks}

MergeInit ==
    /\ proxy = [DefaultProxy EXCEPT !.TrustedCA.Name = "user-ca"]
    /\ \E bytes \in MergeData :
         configMaps =
            [k \in ConfigMapKeys |->
                IF k \in SourceKeys THEN SourceConfigMap(k.Name, bytes) ELSE NotFound]
    /\ systemTrustBundle \in MergeData
    /\ health = SetNotDegraded
    /\ last = NoInvocation
    /\ Idle
    /\ queue = {}
    /\ budget = NoBudget

\* A call of mergeTrustBundlesToConfigMap outside Reconcile: last holds the
\* ConfigMap and the error it returned.
MergeBundles ==
    LET m == mergeTrustBundlesToConfigMap(SourceData, systemTrustBundle)
    IN  /\ last' = [NoInvocation EXCEPT !.invoked = TRUE,
                                        !.ret = IF m.err THEN "error" ELSE "nil",
                                        !.trustBundle = m.cfgMap]
        /\ UNCHANGED <<proxy, configMaps, systemTrustBundle, health, pc, local,
                       queue, budget>>

MergeNext ==
    \/ MergeBundles
    \/ DoReconcile(Proxy, "none")
    \/ \E n \in CMNames, bytes \in MergeData : UpdateConfigMap(n, bytes)

MergeSpec == MergeInit /\ [][MergeNext]_vars

---------------------------------------------------------------------------
(* Properties of the merge specification.                                  *)

\* C17: for non-empty byte slices A (additional) and B (system) whose
\* concatenation is a valid bundle, mergeTrustBundlesToConfigMap returns no
\* error and a ConfigMap named openshift-config-managed/trusted-ca-bundle
\* whose only key "ca-bundle.crt" holds A followed by B: as long as both
\* together, starting with A and ending with B.
C17_MergeOrder ==
    (/\ last.invoked /\ last.request = NoInvocation.request
     /\ Len(SourceData) > 0 /\ Len(systemTrustBundle) > 0
     /\ \A i \in 1..Len(SourceData) : SourceData[i] \in Certificates
     /\ \A i \in 1..Len(systemTrustBundle) : systemTrustBundle[i] \in Certificates) =>
        /\ last.ret = "nil"
        /\ KeyOf(last.trustBundle) = TrustedCABundleConfigMap
        /\ DOMAIN last.trustBundle.Data = {TRUSTED_CA_BUNDLE_CONFIGMAP_KEY}
        /\ LET merged == last.trustBundle.Data[TRUSTED_CA_BUNDLE_CONFIGMAP_KEY]
           IN  /\ Len(merged) = Len(SourceData) + Len(systemTrustBundle)
               /\ SubSeq(merged, 1, Len(SourceData)) = SourceData
               /\ SubSeq(merged, Len(SourceData) + 1, Len(merged)) = systemTrustBundle

\* C17 witness: two different certificates were merged with a system bundle
\* that repeats one of them.
C17_Witness ==
    /\ last.invoked /\ last.request = NoInvocation.request
    /\ SourceData = <<"S", "A">>
    /\ systemTrustBundle = <<"S">>
    /\ last.ret = "nil"

\* C18: mergeTrustBundlesToConfigMap fails for an empty additional slice,
\* whatever the system slice, and for an empty system slice, whatever the
\* additional slice, returning an error and no ConfigMap; an invocation of
\* Reconcile in which this happens does not call the sync and leaves the
\* stored ConfigMaps as they were.
C18_MergeRejectsEmpty ==
    [][(/\ last'.invoked
        /\ Len(SourceData) = 0 \/ Len(systemTrustBundle) = 0) =>
          /\ last'.ret = "error"
          /\ last'.trustBundle = EmptyConfigMap
          /\ ~last'.synced
          /\ last'.writes = <<>>
          /\ configMaps' = configMaps]_vars

\* C18 witness: a Reconcile failed on an empty additional bundle while the
\* derived ConfigMap was stored.
C18_Witness ==
    /\ last.invoked /\ last.request = Proxy
    /\ Len(SourceData) = 0 /\ Len(systemTrustBundle) > 0
    /\ last.ret = "error"
    /\ Get(configMaps, TrustedCABundleConfigMap) # NotFound

====
